---------------------------- MODULE Spec2Model ----------------------------
(***************************************************************************)
(* A model of library/src/layout/page.rs: PageNode::layout, the Marginal   *)
(* type (resolve and its Cast implementation) and the Paper registry.      *)
(*                                                                         *)
(* Lengths (Abs) are integers in units of 1/10000 mm, so that every paper  *)
(* size of the table and 11.90% of every page size used here is exact.     *)
(* Ratios (the relative part of a Rel) are whole percents.  Lengths carry  *)
(* no em part, so Sides::resolve(styles) leaves them as they are.          *)
(***************************************************************************)
EXTENDS Integers, Sequences, FiniteSets, TLC

VARIABLES
    mode,       \* which entry point of the file is exercised
    styles,     \* the style chain's values of PageNode's properties
    start,      \* the page argument of PageNode::layout
    pc,         \* position in PageNode::layout
    padding,    \* local `padding`
    child,      \* local `child`, as handed to layout_block
    regions,    \* local `regions`, as handed to layout_block
    blockFrames,\* what child.layout_block returned (kept for reference)
    frames,     \* local `frames`
    page,       \* local `page`
    fi,         \* index (1-based) of the frame the overlay loop is at
    slot,       \* index into the array of the four marginals
    resolves,   \* every Marginal::resolve call made: frame, slot, page
    calls,      \* every Func::call_detached made: frame, slot, func, args
    layouts,    \* every marginal layout_block call: frame, slot, pos, area
    failed,     \* some collaborator returned Err during this call
    result,     \* the value PageNode::layout returned
    value,      \* the Spanned<Value> handed to Marginal's Cast
    isResult,   \* what Cast::is returned for it
    castResult, \* what Cast::cast returned for it
    name,       \* the string handed to Paper::from_str
    parsed      \* what Paper::from_str returned

layoutVars == <<styles, start, pc, padding, child, regions, blockFrames, frames,
                page, fi, slot, resolves, calls, layouts, failed, result>>
layoutVarsButPc == <<styles, start, padding, child, regions, blockFrames, frames,
                     page, fi, slot, resolves, calls, layouts, failed, result>>
castVars == <<value, isResult, castResult>>
paperVars == <<name, parsed>>
vars == <<mode, layoutVars, castVars, paperVars>>

----------------------------------------------------------------------------
(* Bounds of the model. *)
MaxStart == 2       \* starting page numbers are 1..MaxStart
MaxFrames == 2      \* the block layout returns 0..MaxFrames frames
MaxColumns == 2     \* COLUMNS is 1..MaxColumns
MaxSpan == 3        \* the spans of cast values are 1..MaxSpan

----------------------------------------------------------------------------
(* Abs, Smart, Rel, Sides *)

\* Abs::inf(): larger than every finite length of the model.
Inf == 1000000000

is_finite(a) == a # Inf

\* Abs::min
AbsMin(a, b) == IF a <= b THEN a ELSE b

Auto == [auto |-> TRUE, v |-> 0]
Custom(x) == [auto |-> FALSE, v |-> x]

\* Smart::unwrap_or
unwrap_or(s, d) == IF s.auto THEN d ELSE s.v

\* Rel<Length>: a ratio (percent) plus an absolute length.
Rel(r, a) == [rel |-> r, abs |-> a]

\* Rel::from(Abs)
RelFrom(a) == Rel(0, a)

\* Rel::relative_to
rel_relative_to(r, whole) == (r.rel * whole) \div 100 + r.abs

\* Sides::relative_to(Size): left and right against x, top and bottom against y.
relative_to(sides, size) ==
    [left   |-> rel_relative_to(sides.left, size[1]),
     top    |-> rel_relative_to(sides.top, size[2]),
     right  |-> rel_relative_to(sides.right, size[1]),
     bottom |-> rel_relative_to(sides.bottom, size[2])]

SideNames == {"left", "top", "right", "bottom"}

----------------------------------------------------------------------------
(* Option, SourceResult *)

None == [some |-> FALSE, v |-> <<>>]
Some(x) == [some |-> TRUE, v |-> <<x>>]

Ok(x) == [ok |-> TRUE, v |-> <<x>>]
Err(e) == [ok |-> FALSE, v |-> <<e>>]

----------------------------------------------------------------------------
(* Content, Marginal *)

\* Content stored in a style or in the node.
Stored(id) == [kind |-> "stored", of |-> id, arg |-> 0]

\* Value::display of the value a marginal's function returned for `arg`.
display(val) == [kind |-> "display", of |-> val.of, arg |-> val.arg]

\* The value a function returns when called with one integer argument.
Returned(func, args) == [of |-> func, arg |-> args.items[1].v]

\* enum Marginal
MNone == [kind |-> "None", content |-> Stored("-"), func |-> "-", span |-> 0]
MContent(c) == [kind |-> "Content", content |-> c, func |-> "-", span |-> 0]
MFunc(f, span) == [kind |-> "Func", content |-> Stored("-"), func |-> f, span |-> span]

\* Value::Int
IntValue(n) == [type |-> "integer", v |-> n]

\* `page as i64`: the identity below 2^63, which every page number here is.
AsI64(n) == n

\* ResolveArgs with the page counted from zero.
ResolveArgs_ZeroBased(marginal, pageNo) ==
    [span |-> marginal.span, items |-> <<IntValue(AsI64(pageNo) - 1)>>]

\* Args::new(span, [Value::Int(page as i64)]) built by Marginal::resolve.
ResolveArgs(marginal, pageNo) ==
    [span |-> marginal.span, items |-> <<IntValue(AsI64(pageNo))>>]

\* resolve with empty content, instead of nothing, for Marginal::None.
resolve_NoneAsEmpty(marginal, pageNo, callOk) ==
    CASE marginal.kind = "None" -> Ok(Some(Stored("empty")))
      [] marginal.kind = "Content" -> Ok(Some(marginal.content))
      [] marginal.kind = "Func" ->
            IF callOk
            THEN Ok(Some(display(Returned(marginal.func, ResolveArgs(marginal, pageNo)))))
            ELSE Err("call")

\* Marginal::resolve.  `callOk` is whether func.call_detached succeeded.
resolve(marginal, pageNo, callOk) ==
    CASE marginal.kind = "None" -> Ok(None)
      [] marginal.kind = "Content" -> Ok(Some(marginal.content))
      [] marginal.kind = "Func" ->
            IF callOk
            THEN Ok(Some(display(Returned(marginal.func, ResolveArgs(marginal, pageNo)))))
            ELSE Err("call")

----------------------------------------------------------------------------
(* Frame *)

\* An item a frame holds at a position.
Elem(id) == [pos |-> <<0, 0>>, kind |-> "elem", role |-> "none",
             content |-> Stored(id), size |-> <<0, 0>>]

\* The first frame content.layout_block returns for a one-region pod.
SubFrame(content, pod) == [role |-> "none", content |-> content, size |-> pod.size]

\* Frame::apply_role
apply_role(sub, role) == [sub EXCEPT !.role = role]

Group(pos, sub) == [pos |-> pos, kind |-> "group", role |-> sub.role,
                    content |-> sub.content, size |-> sub.size]

\* Frame::push_frame: the sub-frame becomes the last item.
push_frame(frame, pos, sub) ==
    [frame EXCEPT !.items = Append(@, Group(pos, sub))]

\* Frame::prepend_frame: the sub-frame becomes the first item.
prepend_frame(frame, pos, sub) ==
    [frame EXCEPT !.items = <<Group(pos, sub)>> \o @]

----------------------------------------------------------------------------
(* PageNode::layout, up to the block layout *)

\* Paper::A4 of the table below, in 1/10000 mm.
A4 == [width |-> 2100000, height |-> 2970000]

\* PageSize without the swap.
PageSize_Unflipped(width, height, flipped) == <<width, height>>

\* `size`, swapped when FLIPPED is set.
PageSize(width, height, flipped) ==
    IF flipped THEN <<height, width>> ELSE <<width, height>>

\* ReferenceMin falling back to A4 as soon as one of the two is infinite.
ReferenceMin_EitherUnbounded(width, height) ==
    IF is_finite(width) /\ is_finite(height) THEN AbsMin(width, height) ELSE A4.width

\* `min`: the smaller of width and height, A4's width when that is infinite.
ReferenceMin(width, height) ==
    LET min == AbsMin(width, height)
    IN  IF ~is_finite(min) THEN A4.width ELSE min

\* `default`: Rel::from(0.1190 * min)
DefaultMargin(width, height) ==
    RelFrom((119 * ReferenceMin(width, height)) \div 1000)

\* `padding`: every side of MARGINS, the default where it is auto.
Padding(margins, default) ==
    [s \in SideNames |-> unwrap_or(margins[s], default)]

\* The wrappers around the body.
ColumnsNode(columns, c) == [node |-> "columns", arg |-> <<columns>>, child |-> <<c>>]
padded(c, pad) == [node |-> "pad", arg |-> <<pad>>, child |-> <<c>>]
filled(c, fill) == [node |-> "fill", arg |-> <<fill>>, child |-> <<c>>]

\* Child with the padding applied to the body, inside the columns.
Child_PadInsideColumns(body, columns, pad, fill) ==
    LET c1 == padded(body, pad)
        c2 == IF columns > 1 THEN ColumnsNode(columns, c1) ELSE c1
    IN  IF fill.some THEN filled(c2, fill.v[1]) ELSE c2

\* `child`: columns, then margins, then fill.
Child(body, columns, pad, fill) ==
    LET c1 == IF columns > 1 THEN ColumnsNode(columns, body) ELSE body
        c2 == padded(c1, pad)
    IN  IF fill.some THEN filled(c2, fill.v[1]) ELSE c2

\* The expand flags: size.map(Abs::is_finite)
Expand(size) == <<is_finite(size[1]), is_finite(size[2])>>

\* The arguments of Regions::repeat(size, size, expand).
LayoutRegions(size) == [size |-> size, base |-> size, expand |-> Expand(size)]

\* The arguments of Regions::one(area, area, Axes::splat(true)).
Pod(area) == [size |-> area, base |-> area, expand |-> <<TRUE, TRUE>>]

----------------------------------------------------------------------------
(* PageNode::layout, the overlay loop *)

\* Marginals with the footer's offset taken from the top margin.
Marginals_FooterFromTop(st, pad, size) ==
    LET pw == size[1] - pad.left - pad.right
        py == size[2] - pad.top
    IN  << [role |-> "Header", marginal |-> st.header,
            pos |-> <<pad.left, 0>>, area |-> <<pw, pad.top>>],
           [role |-> "Footer", marginal |-> st.footer,
            pos |-> <<pad.left, py>>, area |-> <<pw, pad.bottom>>],
           [role |-> "Foreground", marginal |-> st.foreground,
            pos |-> <<0, 0>>, area |-> size],
           [role |-> "Background", marginal |-> st.background,
            pos |-> <<0, 0>>, area |-> size] >>

\* The array the inner loop walks: role, marginal, position, area.
Marginals(st, pad, size) ==
    LET pw == size[1] - pad.left - pad.right
        py == size[2] - pad.bottom
    IN  << [role |-> "Header", marginal |-> st.header,
            pos |-> <<pad.left, 0>>, area |-> <<pw, pad.top>>],
           [role |-> "Footer", marginal |-> st.footer,
            pos |-> <<pad.left, py>>, area |-> <<pw, pad.bottom>>],
           [role |-> "Foreground", marginal |-> st.foreground,
            pos |-> <<0, 0>>, area |-> size],
           [role |-> "Background", marginal |-> st.background,
            pos |-> <<0, 0>>, area |-> size] >>

\* Composite that pushes every sub-frame on top.
Composite_AlwaysOnTop(frame, role, pos, sub) == push_frame(frame, pos, sub)

\* The branch on the role: the background goes beneath, the others on top.
Composite(frame, role, pos, sub) ==
    IF role = "Background"
    THEN prepend_frame(frame, pos, sub)
    ELSE push_frame(frame, pos, sub)

\* `page += 1` at the end of a frame's iteration.
NextPage(pageNo) == pageNo + 1

\* Propagates that lets every error pass.
Propagates_Swallowed(res) == FALSE

\* `?` applied to a collaborator's result: an Err leaves the function at once.
Propagates(res) == ~res.ok

----------------------------------------------------------------------------
(* Inputs *)

\* The content the PageNode holds (self.0).
TheBody == [node |-> "body", arg |-> <<>>, child |-> <<>>]

\* Sequences over S of length at most n.
SeqsUpTo(S, n) == UNION {[1..k -> S] : k \in 0..n}

\* Explicit margins: an absolute side, a relative side, a mixed and a zero one.
Explicit ==
    [left   |-> Custom(Rel(0, 100000)),
     top    |-> Custom(Rel(5, 50000)),
     right  |-> Custom(Rel(10, 0)),
     bottom |-> Custom(Rel(0, 0))]

\* MARGINS with exactly the sides of `autos` left auto.
MarginsWith(autos) ==
    [s \in SideNames |-> IF s \in autos THEN Auto ELSE Explicit[s]]

MarginInputs ==
    {MarginsWith(a) : a \in {SideNames, {}, {"left", "bottom"}, {"top", "right"}, {"top"}}}

WidthInputs == {Auto, Custom(A4.width), Custom(4000000)}
HeightInputs == {Auto, Custom(A4.height)}
FillInputs == {None, Some("red")}

MarginalInputs(slotName) ==
    {MNone, MContent(Stored(slotName)), MFunc(slotName, 7)}

Style(w, h, fl, m, c, f, hd, ft, fg, bg) ==
    [width |-> w, height |-> h, flipped |-> fl, margins |-> m, columns |-> c,
     fill |-> f, header |-> hd, footer |-> ft, foreground |-> fg, background |-> bg]

\* Every geometry, with one setting of the marginals.
GeometryInputs ==
    {Style(w, h, fl, m, c, f, MContent(Stored("header")), MFunc("footer", 7),
           MNone, MContent(Stored("background"))) :
        w \in WidthInputs, h \in HeightInputs, fl \in BOOLEAN, m \in MarginInputs,
        c \in 1..MaxColumns, f \in FillInputs}

\* Every setting of the marginals, with two geometries: the defaults, and a
\* page that is unbounded in width with explicit margins, columns and a fill.
OverlayInputs ==
    {Style(g.w, g.h, FALSE, g.m, g.c, g.f, hd, ft, fg, bg) :
        g \in {[w |-> Custom(A4.width), h |-> Custom(A4.height),
                m |-> MarginsWith(SideNames), c |-> 1, f |-> None],
               [w |-> Auto, h |-> Custom(A4.height),
                m |-> MarginsWith({}), c |-> MaxColumns, f |-> Some("red")]},
        hd \in MarginalInputs("header"), ft \in MarginalInputs("footer"),
        fg \in MarginalInputs("foreground"), bg \in MarginalInputs("background")}

LayoutInputs ==
    ({[st |-> st, start |-> 1] : st \in GeometryInputs})
    \cup {[st |-> st, start |-> p] : st \in OverlayInputs, p \in 1..MaxStart}

\* What a page of the body may hold: its items, and its extent along an axis
\* the page leaves unbounded.
PageContents ==
    {[extent |-> <<500000, 700000>>, items |-> <<>>],
     [extent |-> <<1500000, 900000>>, items |-> <<Elem("b1"), Elem("b2")>>]}

\* The frames child.layout_block may return for the regions: a frame has the
\* region's size along a finite axis and the content's extent along the other.
BlockFrames(regs) ==
    {[size |-> <<IF regs.expand[1] THEN regs.size[1] ELSE c.extent[1],
                 IF regs.expand[2] THEN regs.size[2] ELSE c.extent[2]>>,
      items |-> c.items] : c \in PageContents}

\* The result of child.layout_block: an error, or the frames `fs`.
layout_block(ok, fs) == IF ok THEN Ok(fs) ELSE Err("layout")

----------------------------------------------------------------------------
(* The state before an entry point has run: the properties at their defaults *)

NoResult == [ok |-> FALSE, v |-> <<"pending">>]

LayoutIdle ==
    /\ styles = Style(Custom(A4.width), Custom(A4.height), FALSE,
                      MarginsWith(SideNames), 1, None, MNone, MNone, MNone, MNone)
    /\ start = 1
    /\ page = 1

LayoutLocalsFresh ==
    /\ padding = [s \in SideNames |-> RelFrom(0)]
    /\ child = TheBody
    /\ regions = LayoutRegions(<<0, 0>>)
    /\ blockFrames = <<>>
    /\ frames = <<>>
    /\ fi = 0
    /\ slot = 0
    /\ resolves = <<>>
    /\ calls = <<>>
    /\ layouts = <<>>
    /\ failed = FALSE
    /\ result = NoResult

CastIdle ==
    /\ value = [v |-> [type |-> "none", payload |-> "-"], span |-> 0]
    /\ isResult = FALSE
    /\ castResult = NoResult

PaperIdle ==
    /\ name = <<>>
    /\ parsed = NoResult

----------------------------------------------------------------------------
(* PageNode::layout as a state machine *)

\* A call of layout(world, page, styles) on PageNode(TheBody).
InitLayout ==
    /\ mode = "layout"
    /\ pc = "ready"
    /\ \E in \in LayoutInputs :
        /\ styles = in.st
        /\ start = in.start
        /\ page = in.start
    /\ LayoutLocalsFresh
    /\ CastIdle
    /\ PaperIdle

\* From the entry to the block layout of the wrapped child.
Begin ==
    /\ mode = "layout"
    /\ pc = "ready"
    /\ LET width == unwrap_or(styles.width, Inf)
           height == unwrap_or(styles.height, Inf)
           size == PageSize(width, height, styles.flipped)
           pad == Padding(styles.margins, DefaultMargin(width, height))
           regs == LayoutRegions(size)
       IN  /\ padding' = pad
           /\ child' = Child(TheBody, styles.columns, pad, styles.fill)
           /\ regions' = regs
           /\ \E ok \in BOOLEAN, fs \in SeqsUpTo(BlockFrames(regs), MaxFrames) :
                LET out == layout_block(ok, fs)
                IN
                IF Propagates(out)
                THEN /\ pc' = "err"
                     /\ result' = Err(out.v[1])
                     /\ failed' = TRUE
                     /\ UNCHANGED <<frames, blockFrames, fi, slot>>
                ELSE /\ pc' = "overlay"
                     /\ frames' = IF out.ok THEN out.v[1] ELSE <<>>
                     /\ blockFrames' = IF out.ok THEN out.v[1] ELSE <<>>
                     /\ failed' = ~out.ok
                     /\ fi' = 1
                     /\ slot' = 1
                     /\ UNCHANGED result
    /\ UNCHANGED <<mode, styles, start, page, resolves, calls, layouts>>
    /\ UNCHANGED <<castVars, paperVars>>

\* One round of the inner loop: one marginal of the frame the loop is at.
Overlay ==
    /\ mode = "layout"
    /\ pc = "overlay"
    /\ fi <= Len(frames)
    /\ \E callOk \in BOOLEAN, layoutOk \in BOOLEAN :
        LET frame == frames[fi]
            size == frame.size
            pad == relative_to(padding, size)
            m == Marginals(styles, pad, size)[slot]
            isFunc == m.marginal.kind = "Func"
            res == resolve(m.marginal, page, callOk)
            content == IF res.ok THEN res.v[1] ELSE None
            pod == Pod(m.area)
            laid == IF layoutOk THEN Ok(<<SubFrame(content.v[1], pod)>>)
                    ELSE Err("layout")
            sub == apply_role(laid.v[1][1], m.role)
            stop == Propagates(res) \/ (content.some /\ Propagates(laid))
            last == slot = Len(Marginals(styles, pad, size))
        IN  /\ resolves' = Append(resolves, [frame |-> fi, slot |-> slot, page |-> page])
            /\ calls' = IF isFunc
                        THEN Append(calls, [frame |-> fi, slot |-> slot,
                                            func |-> m.marginal.func,
                                            args |-> ResolveArgs(m.marginal, page)])
                        ELSE calls
            /\ layouts' = IF content.some
                          THEN Append(layouts, [frame |-> fi, slot |-> slot, role |-> m.role,
                                                content |-> content.v[1], pod |-> pod,
                                                pos |-> m.pos])
                          ELSE layouts
            /\ failed' = (failed \/ ~res.ok \/ (content.some /\ ~layoutOk))
            /\ IF stop
               THEN /\ pc' = "err"
                    /\ result' = Err(IF ~res.ok THEN res.v[1] ELSE laid.v[1])
                    /\ frames' = <<>>
                    /\ UNCHANGED <<fi, slot, page>>
               ELSE /\ frames' = IF content.some /\ laid.ok
                                 THEN [frames EXCEPT ![fi] = Composite(frame, m.role, m.pos, sub)]
                                 ELSE frames
                    /\ slot' = IF last THEN 1 ELSE slot + 1
                    /\ fi' = IF last THEN fi + 1 ELSE fi
                    /\ page' = IF last THEN NextPage(page) ELSE page
                    /\ UNCHANGED <<pc, result>>
    /\ UNCHANGED <<mode, styles, start, padding, child, regions, blockFrames>>
    /\ UNCHANGED <<castVars, paperVars>>

\* Ok(frames), once the loop is through every frame.
Return ==
    /\ mode = "layout"
    /\ pc = "overlay"
    /\ fi > Len(frames)
    /\ pc' = "ok"
    /\ result' = Ok(frames)
    /\ UNCHANGED <<mode, styles, start, padding, child, regions, blockFrames, frames,
                   page, fi, slot, resolves, calls, layouts, failed>>
    /\ UNCHANGED <<castVars, paperVars>>

----------------------------------------------------------------------------
(* impl Cast<Spanned<Value>> for Marginal *)

\* TextNode(v.into()).pack()
TextNode(str) == [kind |-> "text", of |-> str, arg |-> 0]

\* Cast::is
is(val) == val.v.type \in {"content", "function"}

\* Cast::cast.  A Value is its type name and a payload; the content a
\* Value::Content holds is Stored(payload).
cast(val) ==
    CASE val.v.type = "none" -> Ok(MNone)
      [] val.v.type = "string" -> Ok(MContent(TextNode(val.v.payload)))
      [] val.v.type = "content" -> Ok(MContent(Stored(val.v.payload)))
      [] val.v.type = "function" -> Ok(MFunc(val.v.payload, val.span))
      [] OTHER -> Err([msg |-> "expected none, content or function, found",
                       found |-> val.v.type])

\* Value::type_name of every variant of Value.
ValueTypes ==
    {"none", "auto", "boolean", "integer", "float", "length", "angle", "ratio",
     "relative length", "fraction", "color", "string", "content", "array",
     "dictionary", "function", "arguments"}

CastInputs ==
    {[v |-> [type |-> t, payload |-> p], span |-> sp] :
        t \in ValueTypes, p \in {"x", "y"}, sp \in 1..MaxSpan}

InitCast ==
    /\ mode = "cast"
    /\ pc = "ready"
    /\ value \in CastInputs
    /\ isResult = FALSE
    /\ castResult = NoResult
    /\ LayoutIdle
    /\ LayoutLocalsFresh
    /\ PaperIdle

\* Marginal::is(&value)
TypeTest ==
    /\ mode = "cast"
    /\ pc \in {"ready", "cast"}
    /\ isResult' = is(value)
    /\ pc' = IF pc = "ready" THEN "tested" ELSE "done"
    /\ UNCHANGED <<mode, value, castResult, layoutVarsButPc, paperVars>>

\* Marginal::cast(value)
CastValue ==
    /\ mode = "cast"
    /\ pc \in {"ready", "tested"}
    /\ castResult' = cast(value)
    /\ pc' = IF pc = "ready" THEN "cast" ELSE "done"
    /\ UNCHANGED <<mode, value, isResult, layoutVarsButPc, paperVars>>

NextCast == TypeTest \/ CastValue

SpecCast == InitCast /\ [][NextCast]_vars

----------------------------------------------------------------------------
(* Paper *)

\* The table of papers!: the constant, its size in 1/10000 mm and its
\* pattern as Unicode code points.
Papers == <<
    [var |-> "A0", width |-> 8410000, height |-> 11890000, pat |-> <<97, 48>>],  \* a0
    [var |-> "A1", width |-> 5940000, height |-> 8410000, pat |-> <<97, 49>>],  \* a1
    [var |-> "A2", width |-> 4200000, height |-> 5940000, pat |-> <<97, 50>>],  \* a2
    [var |-> "A3", width |-> 2970000, height |-> 4200000, pat |-> <<97, 51>>],  \* a3
    [var |-> "A4", width |-> 2100000, height |-> 2970000, pat |-> <<97, 52>>],  \* a4
    [var |-> "A5", width |-> 1480000, height |-> 2100000, pat |-> <<97, 53>>],  \* a5
    [var |-> "A6", width |-> 1050000, height |-> 1480000, pat |-> <<97, 54>>],  \* a6
    [var |-> "A7", width |-> 740000, height |-> 1050000, pat |-> <<97, 55>>],  \* a7
    [var |-> "A8", width |-> 520000, height |-> 740000, pat |-> <<97, 56>>],  \* a8
    [var |-> "A9", width |-> 370000, height |-> 520000, pat |-> <<97, 57>>],  \* a9
    [var |-> "A10", width |-> 260000, height |-> 370000, pat |-> <<97, 49, 48>>],  \* a10
    [var |-> "A11", width |-> 180000, height |-> 260000, pat |-> <<97, 49, 49>>],  \* a11
    [var |-> "ISO_B1", width |-> 7070000, height |-> 10000000, pat |-> <<105, 115, 111, 45, 98, 49>>],  \* iso-b1
    [var |-> "ISO_B2", width |-> 5000000, height |-> 7070000, pat |-> <<105, 115, 111, 45, 98, 50>>],  \* iso-b2
    [var |-> "ISO_B3", width |-> 3530000, height |-> 5000000, pat |-> <<105, 115, 111, 45, 98, 51>>],  \* iso-b3
    [var |-> "ISO_B4", width |-> 2500000, height |-> 3530000, pat |-> <<105, 115, 111, 45, 98, 52>>],  \* iso-b4
    [var |-> "ISO_B5", width |-> 1760000, height |-> 2500000, pat |-> <<105, 115, 111, 45, 98, 53>>],  \* iso-b5
    [var |-> "ISO_B6", width |-> 1250000, height |-> 1760000, pat |-> <<105, 115, 111, 45, 98, 54>>],  \* iso-b6
    [var |-> "ISO_B7", width |-> 880000, height |-> 1250000, pat |-> <<105, 115, 111, 45, 98, 55>>],  \* iso-b7
    [var |-> "ISO_B8", width |-> 620000, height |-> 880000, pat |-> <<105, 115, 111, 45, 98, 56>>],  \* iso-b8
    [var |-> "ISO_C3", width |-> 3240000, height |-> 4580000, pat |-> <<105, 115, 111, 45, 99, 51>>],  \* iso-c3
    [var |-> "ISO_C4", width |-> 2290000, height |-> 3240000, pat |-> <<105, 115, 111, 45, 99, 52>>],  \* iso-c4
    [var |-> "ISO_C5", width |-> 1620000, height |-> 2290000, pat |-> <<105, 115, 111, 45, 99, 53>>],  \* iso-c5
    [var |-> "ISO_C6", width |-> 1140000, height |-> 1620000, pat |-> <<105, 115, 111, 45, 99, 54>>],  \* iso-c6
    [var |-> "ISO_C7", width |-> 810000, height |-> 1140000, pat |-> <<105, 115, 111, 45, 99, 55>>],  \* iso-c7
    [var |-> "ISO_C8", width |-> 570000, height |-> 810000, pat |-> <<105, 115, 111, 45, 99, 56>>],  \* iso-c8
    [var |-> "DIN_D3", width |-> 2720000, height |-> 3850000, pat |-> <<100, 105, 110, 45, 100, 51>>],  \* din-d3
    [var |-> "DIN_D4", width |-> 1920000, height |-> 2720000, pat |-> <<100, 105, 110, 45, 100, 52>>],  \* din-d4
    [var |-> "DIN_D5", width |-> 1360000, height |-> 1920000, pat |-> <<100, 105, 110, 45, 100, 53>>],  \* din-d5
    [var |-> "DIN_D6", width |-> 960000, height |-> 1360000, pat |-> <<100, 105, 110, 45, 100, 54>>],  \* din-d6
    [var |-> "DIN_D7", width |-> 680000, height |-> 960000, pat |-> <<100, 105, 110, 45, 100, 55>>],  \* din-d7
    [var |-> "DIN_D8", width |-> 480000, height |-> 680000, pat |-> <<100, 105, 110, 45, 100, 56>>],  \* din-d8
    [var |-> "SIS_G5", width |-> 1690000, height |-> 2390000, pat |-> <<115, 105, 115, 45, 103, 53>>],  \* sis-g5
    [var |-> "SIS_E5", width |-> 1150000, height |-> 2200000, pat |-> <<115, 105, 115, 45, 101, 53>>],  \* sis-e5
    [var |-> "ANSI_A", width |-> 2160000, height |-> 2790000, pat |-> <<97, 110, 115, 105, 45, 97>>],  \* ansi-a
    [var |-> "ANSI_B", width |-> 2790000, height |-> 4320000, pat |-> <<97, 110, 115, 105, 45, 98>>],  \* ansi-b
    [var |-> "ANSI_C", width |-> 4320000, height |-> 5590000, pat |-> <<97, 110, 115, 105, 45, 99>>],  \* ansi-c
    [var |-> "ANSI_D", width |-> 5590000, height |-> 8640000, pat |-> <<97, 110, 115, 105, 45, 100>>],  \* ansi-d
    [var |-> "ANSI_E", width |-> 8640000, height |-> 11180000, pat |-> <<97, 110, 115, 105, 45, 101>>],  \* ansi-e
    [var |-> "ARCH_A", width |-> 2290000, height |-> 3050000, pat |-> <<97, 114, 99, 104, 45, 97>>],  \* arch-a
    [var |-> "ARCH_B", width |-> 3050000, height |-> 4570000, pat |-> <<97, 114, 99, 104, 45, 98>>],  \* arch-b
    [var |-> "ARCH_C", width |-> 4570000, height |-> 6100000, pat |-> <<97, 114, 99, 104, 45, 99>>],  \* arch-c
    [var |-> "ARCH_D", width |-> 6100000, height |-> 9140000, pat |-> <<97, 114, 99, 104, 45, 100>>],  \* arch-d
    [var |-> "ARCH_E1", width |-> 7620000, height |-> 10670000, pat |-> <<97, 114, 99, 104, 45, 101, 49>>],  \* arch-e1
    [var |-> "ARCH_E", width |-> 9140000, height |-> 12190000, pat |-> <<97, 114, 99, 104, 45, 101>>],  \* arch-e
    [var |-> "JIS_B0", width |-> 10300000, height |-> 14560000, pat |-> <<106, 105, 115, 45, 98, 48>>],  \* jis-b0
    [var |-> "JIS_B1", width |-> 7280000, height |-> 10300000, pat |-> <<106, 105, 115, 45, 98, 49>>],  \* jis-b1
    [var |-> "JIS_B2", width |-> 5150000, height |-> 7280000, pat |-> <<106, 105, 115, 45, 98, 50>>],  \* jis-b2
    [var |-> "JIS_B3", width |-> 3640000, height |-> 5150000, pat |-> <<106, 105, 115, 45, 98, 51>>],  \* jis-b3
    [var |-> "JIS_B4", width |-> 2570000, height |-> 3640000, pat |-> <<106, 105, 115, 45, 98, 52>>],  \* jis-b4
    [var |-> "JIS_B5", width |-> 1820000, height |-> 2570000, pat |-> <<106, 105, 115, 45, 98, 53>>],  \* jis-b5
    [var |-> "JIS_B6", width |-> 1280000, height |-> 1820000, pat |-> <<106, 105, 115, 45, 98, 54>>],  \* jis-b6
    [var |-> "JIS_B7", width |-> 910000, height |-> 1280000, pat |-> <<106, 105, 115, 45, 98, 55>>],  \* jis-b7
    [var |-> "JIS_B8", width |-> 640000, height |-> 910000, pat |-> <<106, 105, 115, 45, 98, 56>>],  \* jis-b8
    [var |-> "JIS_B9", width |-> 450000, height |-> 640000, pat |-> <<106, 105, 115, 45, 98, 57>>],  \* jis-b9
    [var |-> "JIS_B10", width |-> 320000, height |-> 450000, pat |-> <<106, 105, 115, 45, 98, 49, 48>>],  \* jis-b10
    [var |-> "JIS_B11", width |-> 220000, height |-> 320000, pat |-> <<106, 105, 115, 45, 98, 49, 49>>],  \* jis-b11
    [var |-> "SAC_D0", width |-> 7640000, height |-> 10640000, pat |-> <<115, 97, 99, 45, 100, 48>>],  \* sac-d0
    [var |-> "SAC_D1", width |-> 5320000, height |-> 7600000, pat |-> <<115, 97, 99, 45, 100, 49>>],  \* sac-d1
    [var |-> "SAC_D2", width |-> 3800000, height |-> 5280000, pat |-> <<115, 97, 99, 45, 100, 50>>],  \* sac-d2
    [var |-> "SAC_D3", width |-> 2640000, height |-> 3760000, pat |-> <<115, 97, 99, 45, 100, 51>>],  \* sac-d3
    [var |-> "SAC_D4", width |-> 1880000, height |-> 2600000, pat |-> <<115, 97, 99, 45, 100, 52>>],  \* sac-d4
    [var |-> "SAC_D5", width |-> 1300000, height |-> 1840000, pat |-> <<115, 97, 99, 45, 100, 53>>],  \* sac-d5
    [var |-> "SAC_D6", width |-> 920000, height |-> 1260000, pat |-> <<115, 97, 99, 45, 100, 54>>],  \* sac-d6
    [var |-> "ISO_ID_1", width |-> 856000, height |-> 539800, pat |-> <<105, 115, 111, 45, 105, 100, 45, 49>>],  \* iso-id-1
    [var |-> "ISO_ID_2", width |-> 740000, height |-> 1050000, pat |-> <<105, 115, 111, 45, 105, 100, 45, 50>>],  \* iso-id-2
    [var |-> "ISO_ID_3", width |-> 880000, height |-> 1250000, pat |-> <<105, 115, 111, 45, 105, 100, 45, 51>>],  \* iso-id-3
    [var |-> "ASIA_F4", width |-> 2100000, height |-> 3300000, pat |-> <<97, 115, 105, 97, 45, 102, 52>>],  \* asia-f4
    [var |-> "JP_SHIROKU_BAN_4", width |-> 2640000, height |-> 3790000, pat |-> <<106, 112, 45, 115, 104, 105, 114, 111, 107, 117, 45, 98, 97, 110, 45, 52>>],  \* jp-shiroku-ban-4
    [var |-> "JP_SHIROKU_BAN_5", width |-> 1890000, height |-> 2620000, pat |-> <<106, 112, 45, 115, 104, 105, 114, 111, 107, 117, 45, 98, 97, 110, 45, 53>>],  \* jp-shiroku-ban-5
    [var |-> "JP_SHIROKU_BAN_6", width |-> 1270000, height |-> 1880000, pat |-> <<106, 112, 45, 115, 104, 105, 114, 111, 107, 117, 45, 98, 97, 110, 45, 54>>],  \* jp-shiroku-ban-6
    [var |-> "JP_KIKU_4", width |-> 2270000, height |-> 3060000, pat |-> <<106, 112, 45, 107, 105, 107, 117, 45, 52>>],  \* jp-kiku-4
    [var |-> "JP_KIKU_5", width |-> 1510000, height |-> 2270000, pat |-> <<106, 112, 45, 107, 105, 107, 117, 45, 53>>],  \* jp-kiku-5
    [var |-> "JP_BUSINESS_CARD", width |-> 910000, height |-> 550000, pat |-> <<106, 112, 45, 98, 117, 115, 105, 110, 101, 115, 115, 45, 99, 97, 114, 100>>],  \* jp-business-card
    [var |-> "CN_BUSINESS_CARD", width |-> 900000, height |-> 540000, pat |-> <<99, 110, 45, 98, 117, 115, 105, 110, 101, 115, 115, 45, 99, 97, 114, 100>>],  \* cn-business-card
    [var |-> "EU_BUSINESS_CARD", width |-> 850000, height |-> 550000, pat |-> <<101, 117, 45, 98, 117, 115, 105, 110, 101, 115, 115, 45, 99, 97, 114, 100>>],  \* eu-business-card
    [var |-> "FR_TELLIERE", width |-> 3400000, height |-> 4400000, pat |-> <<102, 114, 45, 116, 101, 108, 108, 105, 232, 114, 101>>],  \* fr-telli?re
    [var |-> "FR_COURONNE_ECRITURE", width |-> 3600000, height |-> 4600000, pat |-> <<102, 114, 45, 99, 111, 117, 114, 111, 110, 110, 101, 45, 233, 99, 114, 105, 116, 117, 114, 101>>],  \* fr-couronne-?criture
    [var |-> "FR_COURONNE_EDITION", width |-> 3700000, height |-> 4700000, pat |-> <<102, 114, 45, 99, 111, 117, 114, 111, 110, 110, 101, 45, 233, 100, 105, 116, 105, 111, 110>>],  \* fr-couronne-?dition
    [var |-> "FR_RAISIN", width |-> 5000000, height |-> 6500000, pat |-> <<102, 114, 45, 114, 97, 105, 115, 105, 110>>],  \* fr-raisin
    [var |-> "FR_CARRE", width |-> 4500000, height |-> 5600000, pat |-> <<102, 114, 45, 99, 97, 114, 114, 233>>],  \* fr-carr?
    [var |-> "FR_JESUS", width |-> 5600000, height |-> 7600000, pat |-> <<102, 114, 45, 106, 233, 115, 117, 115>>],  \* fr-j?sus
    [var |-> "UK_BRIEF", width |-> 4064000, height |-> 3429000, pat |-> <<117, 107, 45, 98, 114, 105, 101, 102>>],  \* uk-brief
    [var |-> "UK_DRAFT", width |-> 2540000, height |-> 4064000, pat |-> <<117, 107, 45, 100, 114, 97, 102, 116>>],  \* uk-draft
    [var |-> "UK_FOOLSCAP", width |-> 2032000, height |-> 3302000, pat |-> <<117, 107, 45, 102, 111, 111, 108, 115, 99, 97, 112>>],  \* uk-foolscap
    [var |-> "UK_QUARTO", width |-> 2032000, height |-> 2540000, pat |-> <<117, 107, 45, 113, 117, 97, 114, 116, 111>>],  \* uk-quarto
    [var |-> "UK_CROWN", width |-> 5080000, height |-> 3810000, pat |-> <<117, 107, 45, 99, 114, 111, 119, 110>>],  \* uk-crown
    [var |-> "UK_BOOK_A", width |-> 1110000, height |-> 1780000, pat |-> <<117, 107, 45, 98, 111, 111, 107, 45, 97>>],  \* uk-book-a
    [var |-> "UK_BOOK_B", width |-> 1290000, height |-> 1980000, pat |-> <<117, 107, 45, 98, 111, 111, 107, 45, 98>>],  \* uk-book-b
    [var |-> "US_LETTER", width |-> 2159000, height |-> 2794000, pat |-> <<117, 115, 45, 108, 101, 116, 116, 101, 114>>],  \* us-letter
    [var |-> "US_LEGAL", width |-> 2159000, height |-> 3556000, pat |-> <<117, 115, 45, 108, 101, 103, 97, 108>>],  \* us-legal
    [var |-> "US_TABLOID", width |-> 2794000, height |-> 4318000, pat |-> <<117, 115, 45, 116, 97, 98, 108, 111, 105, 100>>],  \* us-tabloid
    [var |-> "US_EXECUTIVE", width |-> 841500, height |-> 2667000, pat |-> <<117, 115, 45, 101, 120, 101, 99, 117, 116, 105, 118, 101>>],  \* us-executive
    [var |-> "US_FOOLSCAP_FOLIO", width |-> 2159000, height |-> 3429000, pat |-> <<117, 115, 45, 102, 111, 111, 108, 115, 99, 97, 112, 45, 102, 111, 108, 105, 111>>],  \* us-foolscap-folio
    [var |-> "US_STATEMENT", width |-> 1397000, height |-> 2159000, pat |-> <<117, 115, 45, 115, 116, 97, 116, 101, 109, 101, 110, 116>>],  \* us-statement
    [var |-> "US_LEDGER", width |-> 4318000, height |-> 2794000, pat |-> <<117, 115, 45, 108, 101, 100, 103, 101, 114>>],  \* us-ledger
    [var |-> "US_OFICIO", width |-> 2159000, height |-> 3403600, pat |-> <<117, 115, 45, 111, 102, 105, 99, 105, 111>>],  \* us-oficio
    [var |-> "US_GOV_LETTER", width |-> 2032000, height |-> 2667000, pat |-> <<117, 115, 45, 103, 111, 118, 45, 108, 101, 116, 116, 101, 114>>],  \* us-gov-letter
    [var |-> "US_GOV_LEGAL", width |-> 2159000, height |-> 3302000, pat |-> <<117, 115, 45, 103, 111, 118, 45, 108, 101, 103, 97, 108>>],  \* us-gov-legal
    [var |-> "US_BUSINESS_CARD", width |-> 889000, height |-> 508000, pat |-> <<117, 115, 45, 98, 117, 115, 105, 110, 101, 115, 115, 45, 99, 97, 114, 100>>],  \* us-business-card
    [var |-> "US_DIGEST", width |-> 1397000, height |-> 2159000, pat |-> <<117, 115, 45, 100, 105, 103, 101, 115, 116>>],  \* us-digest
    [var |-> "US_TRADE", width |-> 1524000, height |-> 2286000, pat |-> <<117, 115, 45, 116, 114, 97, 100, 101>>],  \* us-trade
    [var |-> "NEWSPAPER_COMPACT", width |-> 2800000, height |-> 4300000, pat |-> <<110, 101, 119, 115, 112, 97, 112, 101, 114, 45, 99, 111, 109, 112, 97, 99, 116>>],  \* newspaper-compact
    [var |-> "NEWSPAPER_BERLINER", width |-> 3150000, height |-> 4700000, pat |-> <<110, 101, 119, 115, 112, 97, 112, 101, 114, 45, 98, 101, 114, 108, 105, 110, 101, 114>>],  \* newspaper-berliner
    [var |-> "NEWSPAPER_BROADSHEET", width |-> 3810000, height |-> 5780000, pat |-> <<110, 101, 119, 115, 112, 97, 112, 101, 114, 45, 98, 114, 111, 97, 100, 115, 104, 101, 101, 116>>],  \* newspaper-broadsheet
    [var |-> "PRESENTATION_16_9", width |-> 2970000, height |-> 1670625, pat |-> <<112, 114, 101, 115, 101, 110, 116, 97, 116, 105, 111, 110, 45, 49, 54, 45, 57>>],  \* presentation-16-9
    [var |-> "PRESENTATION_4_3", width |-> 2800000, height |-> 2100000, pat |-> <<112, 114, 101, 115, 101, 110, 116, 97, 116, 105, 111, 110, 45, 52, 45, 51>>]  \* presentation-4-3
>>

\* char::to_lowercase on the characters used here: ASCII and Latin-1 letters.
LowerChar(c) ==
    IF (c >= 65 /\ c <= 90) \/ (c >= 192 /\ c <= 222 /\ c # 215) THEN c + 32 ELSE c

\* to_lowercase that lowers ASCII letters only.
to_lowercase_AsciiOnly(str) ==
    [i \in 1..Len(str) |-> IF str[i] >= 65 /\ str[i] <= 90 THEN str[i] + 32 ELSE str[i]]

\* str::to_lowercase
to_lowercase(str) == [i \in 1..Len(str) |-> LowerChar(str[i])]

\* The match of Paper::from_str: the first arm whose pattern is the
\* lowercased name, and the error of the last arm when there is none.
from_str(str) ==
    LET low == to_lowercase(str)
        arms == {i \in 1..Len(Papers) : Papers[i].pat = low}
    IN  IF arms = {}
        THEN Err("invalid paper name")
        ELSE LET first == CHOOSE i \in arms : \A j \in arms : i <= j
             IN  Ok([width |-> Papers[first].width, height |-> Papers[first].height])

\* The upper-case form of a character of a pattern.
UpperChar(c) ==
    IF (c >= 97 /\ c <= 122) \/ (c >= 224 /\ c <= 254 /\ c # 247) THEN c - 32 ELSE c

\* A spelling of `str` in another case: all upper, or upper at the odd or at
\* the even positions.
Recase(str, how) ==
    [i \in 1..Len(str) |->
        IF how = "upper" \/ (how = "odd" /\ i % 2 = 1) \/ (how = "even" /\ i % 2 = 0)
        THEN UpperChar(str[i]) ELSE str[i]]

Cases == {"lower", "upper", "odd", "even"}

\* Characters appended to a name to misspell it: 0, 2, r, space.
Suffixes == {48, 50, 114, 32}

DropLast(str) == SubSeq(str, 1, Len(str) - 1)

\* The strings handed to from_str: every pattern in four spellings, each with
\* a character appended, and each with its last character dropped.
NameInputs ==
    LET spelled == {Recase(Papers[i].pat, how) : i \in 1..Len(Papers), how \in Cases}
    IN  spelled
        \cup {Append(n, c) : n \in spelled, c \in Suffixes}
        \cup {DropLast(n) : n \in spelled}

InitPaper ==
    /\ mode = "paper"
    /\ pc = "ready"
    /\ name \in NameInputs
    /\ parsed = NoResult
    /\ LayoutIdle
    /\ LayoutLocalsFresh
    /\ CastIdle

\* Paper::from_str(name)
Parse ==
    /\ mode = "paper"
    /\ pc = "ready"
    /\ parsed' = from_str(name)
    /\ pc' = "done"
    /\ UNCHANGED <<mode, name, layoutVarsButPc, castVars>>

NextPaper == Parse

SpecPaper == InitPaper /\ [][NextPaper]_vars

----------------------------------------------------------------------------
Init == InitLayout

Next == Begin \/ Overlay \/ Return

Spec == Init /\ [][Next]_vars

----------------------------------------------------------------------------
(* Properties of PageNode::layout *)

\* The frames layout returned.
Returned_frames == result.v[1]

\* The marginal the styles hold for a role.
MarginalOf(role) ==
    CASE role = "Header" -> styles.header
      [] role = "Footer" -> styles.footer
      [] role = "Foreground" -> styles.foreground
      [] role = "Background" -> styles.background

Roles == {"Header", "Footer", "Foreground", "Background"}

\* The items of a frame that the body layout produced, in order.
BodyOf(frame) == SelectSeq(frame.items, LAMBDA it : it.kind = "elem")

\* The positions of a frame's items that are sub-frames of a role.
GroupsOf(frame, role) ==
    {i \in DOMAIN frame.items :
        frame.items[i].kind = "group" /\ frame.items[i].role = role}

\* C1: a layout call with starting page p whose block layout gave n frames
\* returns those n frames in order; every resolve for the k-th frame (k from 0)
\* sees page p + k, every generator is called with the single integer p + k,
\* and the counter advances by one per frame whatever the marginals are.
C1_PageNumbers ==
    /\ \A i \in DOMAIN resolves :
          resolves[i].page = start + (resolves[i].frame - 1)
    /\ \A i \in DOMAIN calls :
          calls[i].args.items = <<IntValue(start + (calls[i].frame - 1))>>
    /\ pc = "overlay" => page = start + (fi - 1)
    /\ pc = "ok" =>
          /\ Len(Returned_frames) = Len(blockFrames)
          /\ \A k \in DOMAIN blockFrames :
                /\ Returned_frames[k].size = blockFrames[k].size
                /\ BodyOf(Returned_frames[k]) = blockFrames[k].items
          /\ page = start + Len(blockFrames)
          /\ Len(resolves) = 4 * Len(blockFrames)

\* A run from page 2 over two frames returned, with a generator called for
\* the second frame and a None marginal beside it.
C1_Witness ==
    /\ pc = "ok"
    /\ start = 2
    /\ Len(blockFrames) = 2
    /\ styles.foreground.kind = "None"
    /\ \E i \in DOMAIN calls : calls[i].frame = 2 /\ calls[i].args.items[1].v = 3

\* C2: layout is all-or-nothing: when the block layout, a resolve or a
\* marginal's layout fails on any frame, layout returns an error and no
\* frames; it returns Ok, with every frame, only when no step failed.
C2_AllOrNothing ==
    /\ failed => (pc = "err" /\ ~result.ok /\ result.v[1] \in {"layout", "call"})
    /\ pc = "err" => (failed /\ ~result.ok)
    /\ result.ok =>
          /\ pc = "ok"
          /\ ~failed
          /\ Len(Returned_frames) = Len(blockFrames)
          /\ Len(resolves) = 4 * Len(blockFrames)

\* A marginal failed on the second frame, after the first was composited.
C2_Witness ==
    /\ pc = "err"
    /\ fi = 2
    /\ Len(layouts) > 0
    /\ ~result.ok

\* C3: in every returned frame the background sub-frame, when there is one,
\* is the first item, and every header, footer and foreground sub-frame
\* comes after every item of the body.
C3_Layering ==
    pc = "ok" =>
        \A k \in DOMAIN Returned_frames :
            LET items == Returned_frames[k].items
            IN  /\ styles.background.kind # "None" =>
                      /\ Len(items) >= 1
                      /\ items[1].kind = "group"
                      /\ items[1].role = "Background"
                /\ \A i \in DOMAIN items :
                      /\ items[i].role = "Background" => i = 1
                      /\ items[i].role \in {"Header", "Footer", "Foreground"} =>
                            \A j \in DOMAIN items : items[j].kind = "elem" => j < i

\* A returned frame with body items and all four marginals.
C3_Witness ==
    /\ pc = "ok"
    /\ \E k \in DOMAIN Returned_frames :
          /\ blockFrames[k].items # <<>>
          /\ \A r \in Roles : GroupsOf(Returned_frames[k], r) # {}

\* C7: a None marginal adds nothing to a frame, a Content marginal adds its
\* stored content to every frame, and every returned frame gains exactly one
\* sub-frame per marginal that is not None, and nothing else.
C7_OnePerMarginal ==
    pc = "ok" =>
        \A k \in DOMAIN Returned_frames :
            LET f == Returned_frames[k]
            IN  /\ \A r \in Roles :
                      LET m == MarginalOf(r)
                          g == GroupsOf(f, r)
                      IN  /\ Cardinality(g) = IF m.kind = "None" THEN 0 ELSE 1
                          /\ m.kind = "Content" =>
                                \A i \in g : f.items[i].content = m.content
                /\ Len(f.items) = Len(blockFrames[k].items)
                      + Cardinality({r \in Roles : MarginalOf(r).kind # "None"})

\* Two returned frames under a None, a Content and a Func marginal.
C7_Witness ==
    /\ pc = "ok"
    /\ Len(Returned_frames) = 2
    /\ styles.header.kind = "None"
    /\ styles.footer.kind = "Content"
    /\ styles.background.kind = "Func"
    /\ GroupsOf(Returned_frames[2], "Footer") # {}

\* The margins resolved against a frame's own size.
MarginsOf(frame) ==
    [left   |-> rel_relative_to(padding.left, frame.size[1]),
     right  |-> rel_relative_to(padding.right, frame.size[1]),
     top    |-> rel_relative_to(padding.top, frame.size[2]),
     bottom |-> rel_relative_to(padding.bottom, frame.size[2])]

\* The region and position the claim gives a role on a frame.
SlotGeometry(frame, role) ==
    LET W == frame.size[1]
        H == frame.size[2]
        mg == MarginsOf(frame)
    IN  CASE role = "Header" ->
                [area |-> <<W - mg.left - mg.right, mg.top>>, pos |-> <<mg.left, 0>>]
          [] role = "Footer" ->
                [area |-> <<W - mg.left - mg.right, mg.bottom>>,
                 pos |-> <<mg.left, H - mg.bottom>>]
          [] OTHER -> [area |-> <<W, H>>, pos |-> <<0, 0>>]

\* C10: on a frame of size (W, H), with the margins resolved against that
\* size, the header is laid out into (W - left - right, top) and placed at
\* (left, 0), the footer into (W - left - right, bottom) at (left, H - bottom),
\* foreground and background into (W, H) at (0, 0); a zero side gives a
\* zero-size strip that is laid out all the same.
C10_SlotGeometry ==
    /\ \A i \in DOMAIN layouts :
          LET e == layouts[i]
              g == SlotGeometry(blockFrames[e.frame], e.role)
          IN  /\ e.pod.size = g.area
              /\ e.pos = g.pos
    /\ pc = "ok" =>
          \A k \in DOMAIN Returned_frames : \A r \in Roles :
              /\ \A i \in GroupsOf(Returned_frames[k], r) :
                    /\ Returned_frames[k].items[i].pos = SlotGeometry(blockFrames[k], r).pos
                    /\ Returned_frames[k].items[i].size = SlotGeometry(blockFrames[k], r).area
              /\ MarginalOf(r).kind # "None" =>
                    \E i \in DOMAIN layouts : layouts[i].frame = k /\ layouts[i].role = r

\* A footer laid out into a strip of height zero, on a frame whose width is
\* the content's and not the page's, with a header of nonzero size above.
C10_Witness ==
    /\ pc = "ok"
    /\ styles.width.auto
    /\ \E k \in DOMAIN Returned_frames :
          /\ \E i \in GroupsOf(Returned_frames[k], "Footer") :
                /\ Returned_frames[k].items[i].size[2] = 0
                /\ Returned_frames[k].items[i].pos[2] = Returned_frames[k].size[2]
          /\ \E i \in GroupsOf(Returned_frames[k], "Header") :
                /\ Returned_frames[k].items[i].size[2] > 0
                /\ Returned_frames[k].items[i].pos[1] > 0

\* WIDTH and HEIGHT as layout reads them: infinite when auto.
PageWidth == IF styles.width.auto THEN Inf ELSE styles.width.v
PageHeight == IF styles.height.auto THEN Inf ELSE styles.height.v

\* 11.90% of a length.
Percent1190(len) == (119 * len) \div 1000

AutoSides == {s \in SideNames : styles.margins[s].auto}

\* C4, as stated: a side left auto is 11.90% of the smaller of width and
\* height when both are finite, and 11.90% of A4's width when either of them
\* is unbounded.
C4_AsStated ==
    pc # "ready" =>
        \A s \in AutoSides :
            padding[s] =
                Rel(0, Percent1190(IF is_finite(PageWidth) /\ is_finite(PageHeight)
                                   THEN AbsMin(PageWidth, PageHeight)
                                   ELSE A4.width))

\* C4, amended: a side left auto is 11.90% of the smaller of width and height
\* when both are finite, 11.90% of the finite one when exactly one of them is
\* unbounded, and 11.90% of A4's width only when both are unbounded.
C4_DefaultMargin ==
    pc # "ready" =>
        \A s \in AutoSides :
            padding[s] =
                Rel(0, Percent1190(
                    CASE is_finite(PageWidth) /\ is_finite(PageHeight) ->
                            AbsMin(PageWidth, PageHeight)
                      [] is_finite(PageWidth) /\ ~is_finite(PageHeight) -> PageWidth
                      [] ~is_finite(PageWidth) /\ is_finite(PageHeight) -> PageHeight
                      [] OTHER -> A4.width))

\* Layout ran with an unbounded width, a finite height and an auto side.
C4_Witness ==
    /\ pc # "ready"
    /\ styles.width.auto
    /\ ~styles.height.auto
    /\ "left" \in AutoSides
    /\ padding.left.abs = Percent1190(A4.height)

\* C5: the block layout is called with a region whose size is (width, height),
\* or (height, width) when flipped, as both of its size bounds, and whose
\* expand flag on an axis is true exactly when that axis of the size is finite.
C5_Regions ==
    pc # "ready" =>
        LET x == IF styles.flipped THEN styles.height ELSE styles.width
            y == IF styles.flipped THEN styles.width ELSE styles.height
        IN  /\ regions.size = <<IF x.auto THEN Inf ELSE x.v, IF y.auto THEN Inf ELSE y.v>>
            /\ regions.base = regions.size
            /\ regions.expand = <<~x.auto, ~y.auto>>

\* A flipped page with an unbounded width: the second axis does not expand.
C5_Witness ==
    /\ pc # "ready"
    /\ styles.flipped
    /\ styles.width.auto
    /\ ~styles.height.auto
    /\ regions.expand = <<TRUE, FALSE>>

\* C6: the child handed to the block layout is the body, inside a ColumnsNode
\* of k columns exactly when columns = k > 1, inside the padding of the
\* margins, inside the fill wrapper exactly when FILL is set.
C6_Nesting ==
    pc # "ready" =>
        LET unfilled == IF styles.fill.some THEN child.child[1] ELSE child
        IN  /\ styles.fill.some => (child.node = "fill" /\ child.arg = <<styles.fill.v[1]>>)
            /\ unfilled.node = "pad"
            /\ unfilled.arg = <<padding>>
            /\ LET inner == unfilled.child[1]
               IN  IF styles.columns = 1
                   THEN inner = TheBody
                   ELSE /\ inner.node = "columns"
                        /\ inner.arg = <<styles.columns>>
                        /\ inner.child = <<TheBody>>

\* Columns, padding and fill all in use.
C6_Witness ==
    /\ pc # "ready"
    /\ styles.columns > 1
    /\ styles.fill.some
    /\ child.node = "fill"

----------------------------------------------------------------------------
(* Properties of Marginal's Cast *)

\* C8: a value is accepted exactly when it is none, a string, content or a
\* function, each converted to its Marginal; every other type is rejected
\* with a type mismatch; and Cast::is accepts exactly the values that
\* Cast::cast converts.
C8_CastContract ==
    (mode = "cast" /\ pc = "done") =>
        /\ castResult.ok <=> value.v.type \in {"none", "string", "content", "function"}
        /\ value.v.type = "none" => castResult = Ok(MNone)
        /\ value.v.type = "string" =>
              castResult = Ok(MContent(TextNode(value.v.payload)))
        /\ value.v.type = "content" =>
              castResult = Ok(MContent(Stored(value.v.payload)))
        /\ value.v.type = "function" =>
              castResult = Ok(MFunc(value.v.payload, value.span))
        /\ ~castResult.ok => castResult.v[1].found = value.v.type
        /\ isResult <=> castResult.ok

----------------------------------------------------------------------------
(* Properties of Paper::from_str *)

\* `a` is `b` with some of its letters in upper case.
CaseVariantOf(a, b) ==
    /\ Len(a) = Len(b)
    /\ \A i \in 1..Len(a) : a[i] = b[i] \/ a[i] = UpperChar(b[i])

\* The table entries a name is a spelling of.
EntriesOf(str) == {i \in 1..Len(Papers) : CaseVariantOf(str, Papers[i].pat)}

\* C9: a name of the table, in any mix of upper and lower case, parses to the
\* width and height of its entry; a string that is no such spelling fails
\* with "invalid paper name" and no paper is substituted.
C9_FromStr ==
    (mode = "paper" /\ pc = "done") =>
        /\ \A i \in EntriesOf(name) :
              /\ parsed.ok
              /\ parsed.v[1].width = Papers[i].width
              /\ parsed.v[1].height = Papers[i].height
        /\ EntriesOf(name) = {} =>
              /\ ~parsed.ok
              /\ parsed.v[1] = "invalid paper name"

\* A name with upper-case letters, one of them not ASCII, was parsed.
C9_Witness ==
    /\ mode = "paper"
    /\ pc = "done"
    /\ parsed.ok
    /\ name # to_lowercase(name)
    /\ \E i \in 1..Len(name) : name[i] > 127
    /\ \E i \in EntriesOf(name) : Papers[i].var = "FR_JESUS"

============================================================================
